---- MODULE Spec2Model ----
(***************************************************************************)
(* A model of improved_diffusion/datasets_image_superres.py:                *)
(*   list_image_files_recursively, load_data_superres and                   *)
(*   ImageDatasetSuperres (__init__, __len__, __getitem__), together with   *)
(*   the traversal of the torch DataLoader that load_data_superres returns. *)
(*                                                                          *)
(* Three specifications share the variables:                                *)
(*   SpecLoad    a directory tree, then one call of load_data_superres      *)
(*   SpecItem    a constructed dataset, then calls of __getitem__, each     *)
(*               followed statement by statement                            *)
(*   SpecLoader  a constructed loader, then two traversals of it            *)
(***************************************************************************)
EXTENDS Integers, Sequences, FiniteSets, TLC

VARIABLES
    fs,         \* the directory tree under data_dir: a set of [path, isdir]
    lpc,        \* load_data_superres: "start", "loaded" or "raised"
    args,       \* the arguments of the call of load_data_superres
    all_files,  \* load_data_superres: all_files
    classes,    \* load_data_superres: classes (None or a list)
    visited,    \* the directories list_image_files_recursively was called on
    dataset,    \* None or the ImageDatasetSuperres object
    loader,     \* None or the DataLoader's arguments
    pc,         \* __getitem__: the statement the call is at
    call,       \* __getitem__: idx, the image read and the random draws
    pil_size,   \* __getitem__: pil_image.size, <<width, height>>
    iters,      \* __getitem__: iterations of the halving loop so far
    ret,        \* __getitem__: what the call returned or raised
    images,     \* SpecLoader: the size of the image stored at each path
    tpc,        \* SpecLoader: "idle", "running", "finished" or "raised"
    order,      \* SpecLoader: the sampler's index order for this traversal
    pos,        \* SpecLoader: how many indices the traversal has consumed
    batches,    \* SpecLoader: the batches this traversal has yielded
    history     \* SpecLoader: what each completed traversal did

vars == <<fs, lpc, args, all_files, classes, visited, dataset, loader,
          pc, call, pil_size, iters, ret,
          images, tpc, order, pos, batches, history>>

loadVars == <<fs, lpc, args, all_files, classes, visited>>
itemVars == <<pc, call, pil_size, iters, ret>>
travVars == <<images, tpc, order, pos, batches, history>>

\* Python's None and a present value, as sequences so that both compare.
None == <<>>
Some(v) == <<v>>
Val(o) == o[1]

(***************************************************************************)
(* Bounds.                                                                  *)
(***************************************************************************)
MaxEntries == 3     \* entries in the directory tree
MaxDepth == 2       \* length of a path below data_dir
MaxClasses == 3     \* largest num_class passed to load_data_superres
MaxLen == 2         \* images in the dataset of SpecItem
MaxDim == 6         \* native width and height of an image
MaxRes == 3         \* resolution (image_size_hr)
MaxItems == 3       \* images in the dataset of SpecLoader
MaxBatch == 2       \* batch_size

(***************************************************************************)
(* File names.  A name is a string; Chars gives its characters, on which    *)
(* split, lower, "in" and the ordering of sorted() work.                    *)
(***************************************************************************)
Chars ==
    [n \in {"a_1.png", "B_1.PNG", "a_2.jpeg", "b.txt", "png"} |->
        CASE n = "a_1.png"  -> <<"a", "_", "1", ".", "p", "n", "g">>
          [] n = "B_1.PNG"  -> <<"B", "_", "1", ".", "P", "N", "G">>
          [] n = "a_2.jpeg" -> <<"a", "_", "2", ".", "j", "p", "e", "g">>
          [] n = "b.txt"    -> <<"b", ".", "t", "x", "t">>
          [] n = "png"      -> <<"p", "n", "g">>]

NamePool == DOMAIN Chars

\* The code point of a character: Python compares str by code points.
Ord(c) ==
    CASE c = "." -> 46  [] c = "1" -> 49  [] c = "2" -> 50
      [] c = "B" -> 66  [] c = "G" -> 71  [] c = "N" -> 78
      [] c = "P" -> 80  [] c = "_" -> 95  [] c = "a" -> 97
      [] c = "b" -> 98  [] c = "e" -> 101 [] c = "g" -> 103
      [] c = "j" -> 106 [] c = "n" -> 110 [] c = "p" -> 112
      [] c = "t" -> 116 [] c = "x" -> 120

\* str.lower() on one character.
LowerChar(c) == IF Ord(c) >= 65 /\ Ord(c) <= 90
                THEN CHOOSE d \in {"b", "g", "n", "p"} : Ord(d) = Ord(c) + 32
                ELSE c

Lower(s) == [i \in 1..Len(s) |-> LowerChar(s[i])]

\* c in s
Contains(s, c) == \E i \in 1..Len(s) : s[i] = c

\* s.split(c)[-1]: what follows the last c, or all of s when c is not in s.
SplitLast(s, c) ==
    LET at == {i \in 1..Len(s) : s[i] = c}
        k  == IF at = {} THEN 0 ELSE CHOOSE i \in at : \A j \in at : j <= i
    IN  SubSeq(s, k + 1, Len(s))

\* s.split(c)[0]: what precedes the first c, or all of s when c is not in s.
SplitFirst(s, c) ==
    LET at == {i \in 1..Len(s) : s[i] = c}
        k  == IF at = {} THEN Len(s) + 1 ELSE CHOOSE i \in at : \A j \in at : i <= j
    IN  SubSeq(s, 1, k - 1)

\* s < t for two str values (sequences of characters).
RECURSIVE StrLess(_, _)
StrLess(s, t) ==
    IF t = <<>> THEN FALSE
    ELSE IF s = <<>> THEN TRUE
    ELSE IF Ord(Head(s)) # Ord(Head(t)) THEN Ord(Head(s)) < Ord(Head(t))
    ELSE StrLess(Tail(s), Tail(t))

\* sorted(S) for a set S of character sequences.
RECURSIVE SortedStrs(_)
SortedStrs(S) ==
    IF S = {} THEN <<>>
    ELSE LET m == CHOOSE x \in S : \A y \in S : y = x \/ StrLess(x, y)
         IN  <<m>> \o SortedStrs(S \ {m})

\* sorted(S) for a set S of names.
RECURSIVE SortedNames(_)
SortedNames(S) ==
    IF S = {} THEN <<>>
    ELSE LET m == CHOOSE x \in S : \A y \in S : y = x \/ StrLess(Chars[x], Chars[y])
         IN  <<m>> \o SortedNames(S \ {m})

(***************************************************************************)
(* The directory tree.  A path is the sequence of names below data_dir.     *)
(***************************************************************************)
Node(p, d) == [path |-> p, isdir |-> d]

\* bf.listdir(dir)
ListDir(fsys, dir) ==
    {nd.path[Len(nd.path)] : nd \in {x \in fsys : Len(x.path) = Len(dir) + 1
                                        /\ SubSeq(x.path, 1, Len(dir)) = dir}}

\* bf.isdir(path)
IsDir(fsys, p) == Node(p, TRUE) \in fsys

\* The trees of at most k entries, MaxDepth deep: an entry has one kind and
\* lies in data_dir or in a directory of the tree.
RECURSIVE Trees(_)
Trees(k) ==
    IF k = 0 THEN {{}}
    ELSE LET smaller == Trees(k - 1)
             Parents(t) == {<<>>} \cup {nd.path : nd \in {x \in t : x.isdir}}
             Free(t, p) == Node(p, TRUE) \notin t /\ Node(p, FALSE) \notin t
         IN  smaller \cup
             UNION {{t \cup {Node(Append(d, n), b)} :
                        <<d, n, b>> \in {x \in Parents(t) \X NamePool \X BOOLEAN :
                                           /\ Len(x[1]) < MaxDepth
                                           /\ Free(t, Append(x[1], x[2]))}} :
                    t \in smaller}

FileSystems == Trees(MaxEntries)

(***************************************************************************)
(* list_image_files_recursively                                             *)
(***************************************************************************)
ImageExts == {<<"j", "p", "g">>, <<"j", "p", "e", "g">>, <<"p", "n", "g">>,
              <<"g", "i", "f">>}

\* line 21-22: the test that appends full_path to results
IsImageEntry(entry) ==
    LET ext == SplitLast(Chars[entry], ".")
    IN  Contains(Chars[entry], ".") /\ Lower(ext) \in ImageExts

\* The results of the call on dir, and the directories the call and the
\* calls it makes were made on, in call order.
RECURSIVE ListFiles(_, _)
RECURSIVE ListEntries(_, _, _)
ListEntries(fsys, dir, entries) ==
    IF entries = <<>> THEN [results |-> <<>>, calls |-> <<>>]
    ELSE LET entry     == Head(entries)
             full_path == Append(dir, entry)
             this == IF IsImageEntry(entry)
                     THEN [results |-> <<full_path>>, calls |-> <<>>]
                     ELSE IF IsDir(fsys, full_path)
                     THEN ListFiles(fsys, full_path)
                     ELSE [results |-> <<>>, calls |-> <<>>]
             rest == ListEntries(fsys, dir, Tail(entries))
         IN  [results |-> this.results \o rest.results,
              calls   |-> this.calls \o rest.calls]

ListFiles(fsys, dir) ==
    LET r == ListEntries(fsys, dir, SortedNames(ListDir(fsys, dir)))
    IN  [results |-> r.results, calls |-> <<dir>> \o r.calls]

\* list_image_files_recursively(data_dir)
list_image_files_recursively(fsys, dir) == ListFiles(fsys, dir).results

(***************************************************************************)
(* load_data_superres                                                       *)
(***************************************************************************)
\* bf.basename(path)
Basename(path) == path[Len(path)]

\* line 90: the class name of each path
ClassNames(files) ==
    [i \in 1..Len(files) |-> SplitFirst(Chars[Basename(files[i])], "_")]

Range(s) == {s[i] : i \in 1..Len(s)}

\* Mutant of OrderedClasses: the distinct names in order of first appearance,
\* as list(dict.fromkeys(class_names)) would give, sorted() left out.
RECURSIVE FirstSeen(_)
FirstSeen(s) ==
    IF s = <<>> THEN <<>>
    ELSE LET r == FirstSeen(SubSeq(s, 1, Len(s) - 1))
         IN  IF s[Len(s)] \in Range(r) THEN r ELSE Append(r, s[Len(s)])

OrderedClassesUnsorted(class_names) == FirstSeen(class_names)

\* line 91: sorted(set(class_names)), the list enumerate() numbers from 0
OrderedClasses(class_names) == SortedStrs(Range(class_names))

\* line 91: sorted_classes, the dict from class name to index
SortedClasses(class_names) ==
    LET ordered == OrderedClasses(class_names)
    IN  [x \in Range(class_names) |->
            (CHOOSE i \in 1..Len(ordered) : ordered[i] = x) - 1]

\* line 92: classes
ClassesOf(files) ==
    LET class_names == ClassNames(files)
        sorted_classes == SortedClasses(class_names)
    IN  [i \in 1..Len(files) |-> sorted_classes[class_names[i]]]

\* Mutant of ClassCountMismatch: an unset num_class skips the check.
ClassCountMismatchUnlessUnset(num_class, sorted_classes) ==
    num_class # None /\ num_class # Some(Cardinality(DOMAIN sorted_classes))

\* line 93: the test that raises the ValueError of line 94
ClassCountMismatch(num_class, sorted_classes) ==
    num_class # Some(Cardinality(DOMAIN sorted_classes))

\* ImageDatasetSuperres.__init__
NewDataset(resolution, low_resolution, num_channels, image_paths, cls, crop) ==
    [resolution |-> resolution, low_resolution |-> low_resolution,
     num_channels |-> num_channels, local_images |-> image_paths,
     local_classes |-> cls, crop |-> crop]

\* Mutant of NewLoader: both branches construct a shuffling DataLoader.
NewLoaderAlwaysShuffling(batch_size, deterministic, droplast) ==
    [batch_size |-> batch_size, shuffle |-> TRUE, drop_last |-> droplast]

\* lines 104-120: the DataLoader, shuffle being False iff deterministic
NewLoader(batch_size, deterministic, droplast) ==
    [batch_size |-> batch_size, shuffle |-> ~deterministic, drop_last |-> droplast]

DataDirs == {"", "data", "missing"}

\* The calls made: with no usable data_dir and every other argument at its
\* default; with class_cond false and num_class at its default (it is not
\* read); with class_cond true and every num_class.
LoadArgs ==
    [data_dir : {"", "missing"}, class_cond : {FALSE}, num_class : {None},
     deterministic : {FALSE}]
    \cup [data_dir : {"data"}, class_cond : {FALSE}, num_class : {None},
          deterministic : BOOLEAN]
    \cup [data_dir : {"data"}, class_cond : {TRUE},
          num_class : {None} \cup {Some(k) : k \in 0..MaxClasses},
          deterministic : BOOLEAN]

\* One call of load_data_superres(data_dir=..., batch_size=1, image_size_hr=1,
\* image_size_lr=1, num_channels=1, class_cond=..., num_class=...,
\* deterministic=...), crop and droplast left at their defaults.
LoadData(a) ==
    /\ lpc = "start"
    /\ args' = Some(a)
    /\ IF a.data_dir = "" \/ a.data_dir = "missing"
       THEN \* lines 80-83
            /\ lpc' = "raised"
            /\ UNCHANGED <<all_files, classes, visited, dataset, loader>>
       ELSE LET listing == ListFiles(fs, <<>>)
                files == list_image_files_recursively(fs, <<>>)
                sorted_classes == SortedClasses(ClassNames(files))
                cls == IF a.class_cond THEN Some(ClassesOf(files)) ELSE None
            IN  /\ all_files' = files
                /\ visited' = listing.calls
                /\ classes' = cls
                /\ IF a.class_cond /\ ClassCountMismatch(a.num_class, sorted_classes)
                   THEN /\ lpc' = "raised"
                        /\ UNCHANGED <<dataset, loader>>
                   ELSE /\ lpc' = "loaded"
                        /\ dataset' = Some(NewDataset(1, 1, 1, files, cls, FALSE))
                        /\ loader' = Some(NewLoader(1, a.deterministic, TRUE))
    /\ UNCHANGED <<fs, itemVars, travVars>>

IdleItem ==
    /\ pc = "idle" /\ call = None /\ pil_size = <<0, 0>> /\ iters = 0 /\ ret = None

IdleTraversal ==
    /\ images = <<>> /\ tpc = "idle" /\ order = <<>> /\ pos = 0
    /\ batches = <<>> /\ history = <<>>

InitLoad ==
    /\ fs \in FileSystems
    /\ lpc = "start" /\ args = None /\ all_files = <<>> /\ classes = None
    /\ visited = <<>> /\ dataset = None /\ loader = None
    /\ IdleItem /\ IdleTraversal

NextLoad == \E a \in LoadArgs : LoadData(a)

SpecLoad == InitLoad /\ [][NextLoad]_vars

(***************************************************************************)
(* Properties of list_image_files_recursively and load_data_superres        *)
(* (SpecLoad).                                                              *)
(***************************************************************************)
\* The call got as far as listing data_dir.
Listed == lpc # "start" /\ Val(args).data_dir = "data"

NoDuplicates(s) == \A i, j \in 1..Len(s) : s[i] = s[j] => i = j

Count(s, x) == Cardinality({i \in 1..Len(s) : s[i] = x})

\* The directories below data_dir, data_dir itself included.
Directories(fsys) == {<<>>} \cup {nd.path : nd \in {x \in fsys : x.isdir}}

\* The non-directory entries whose name has a dot and an image extension,
\* whatever its case.
ImageFiles(fsys) ==
    {nd.path : nd \in {x \in fsys :
        /\ ~x.isdir
        /\ Contains(Chars[Basename(x.path)], ".")
        /\ Lower(SplitLast(Chars[Basename(x.path)], ".")) \in ImageExts}}

\* C7: list_image_files_recursively recurses into every directory under
\* data_dir exactly once, whatever the directory's name, and returns exactly
\* the non-directory entries that have a dot and an image extension
\* (case-insensitively), none of them twice.
C7_ListsExactlyImageFiles ==
    Listed =>
        /\ \A d \in Directories(fs) : Count(visited, d) = 1
        /\ Range(all_files) = ImageFiles(fs)
        /\ NoDuplicates(all_files)

\* The number of class names that sort before x.
Rank(x, names) == Cardinality({y \in names : StrLess(y, x)})

Permute(s, f) == [i \in 1..Len(s) |-> s[f[i]]]

ClassCond == Val(args).class_cond

\* C3: with class conditioning, the labels are aligned with the paths, each
\* is the 0-based rank of the path's class name among the sorted distinct
\* class names, two paths share a label iff they share a class name, and the
\* mapping from name to label is the same for every order of the paths.
C3_LabelsAreSortedRanks ==
    (lpc = "loaded" /\ ClassCond) =>
        LET names == ClassNames(all_files)
            cls == Val(classes)
        IN  /\ Val(dataset).local_classes = classes
            /\ Val(dataset).local_images = all_files
            /\ Len(cls) = Len(all_files)
            /\ \A i \in 1..Len(all_files) : cls[i] = Rank(names[i], Range(names))
            /\ \A i, j \in 1..Len(all_files) : cls[i] = cls[j] <=> names[i] = names[j]
            /\ \A f \in Permutations(1..Len(all_files)) :
                    SortedClasses(ClassNames(Permute(all_files, f)))
                        = SortedClasses(names)

\* C3's case: paths of two classes, the class of the first path listed not
\* being the first class in sorted order.
C3_Witness ==
    /\ lpc = "loaded" /\ ClassCond
    /\ Len(all_files) >= 2
    /\ Val(args).num_class = Some(2)
    /\ Val(classes)[1] = 1

\* The number of distinct class names among the listed paths.
DistinctClasses == Cardinality(Range(ClassNames(all_files)))

\* C4: with class conditioning, the call raises iff num_class differs from
\* the number of distinct class names (an unset num_class differs), and a
\* call that raised constructed neither the dataset nor the DataLoader.
C4_ClassCountChecked ==
    /\ (Listed /\ ClassCond) =>
            (lpc = "raised" <=> Val(args).num_class # Some(DistinctClasses))
    /\ (Listed /\ ClassCond /\ Val(args).num_class = Some(DistinctClasses)) =>
            (lpc = "loaded" /\ dataset # None /\ loader # None)
    /\ lpc = "raised" => (dataset = None /\ loader = None)

\* C4's case: two classes found, num_class unset, the call raised.
C4_Witness ==
    /\ Listed /\ ClassCond
    /\ DistinctClasses = 2
    /\ Val(args).num_class = None
    /\ lpc = "raised"

(***************************************************************************)
(* ImageDatasetSuperres.__len__ and __getitem__                             *)
(***************************************************************************)
\* __len__
DatasetLen(d) == Len(d.local_images)

\* Mutant of ValidIndex: the most negative index, -len, is refused.
ValidIndexAboveMinusLen(list, idx) == -Len(list) < idx /\ idx < Len(list)

\* list[idx] does not raise IndexError
ValidIndex(list, idx) == -Len(list) <= idx /\ idx < Len(list)

\* list[idx] for a valid idx: a negative idx counts from the end.
ListItem(list, idx) == IF idx < 0 THEN list[Len(list) + idx + 1] ELSE list[idx + 1]

Min2(size) == IF size[1] <= size[2] THEN size[1] ELSE size[2]
Max2(size) == IF size[1] >= size[2] THEN size[1] ELSE size[2]

\* Mutant of KeepHalving: the loop stops one halving early when the smaller
\* side is exactly twice the resolution.
KeepHalvingStrict(size, resolution) == Min2(size) > 2 * resolution

\* line 196: the condition of the while loop
KeepHalving(size, resolution) == Min2(size) >= 2 * resolution

\* line 198: tuple(x // 2 for x in pil_image.size)
HalveSize(size) == <<size[1] \div 2, size[2] \div 2>>

\* round(num / den) as Python rounds num * (1 / den)'s nearest float: to the
\* nearest integer, a tie going to the even one.
RoundDiv(num, den) ==
    LET q == num \div den
        r == num % den
    IN  IF 2 * r < den THEN q
        ELSE IF 2 * r > den THEN q + 1
        ELSE IF q % 2 = 0 THEN q ELSE q + 1

\* lines 202-204: tuple(round(x * scale) for x in pil_image.size) with
\* scale = resolution / min(*pil_image.size)
ScaleSize(size, resolution) ==
    <<RoundDiv(size[1] * resolution, Min2(size)),
      RoundDiv(size[2] * resolution, Min2(size))>>

\* lines 209-213: arr.shape, PIL's (width, height) becoming (rows, columns)
ArrayShape(size, num_channels) == <<size[2], size[1], num_channels>>

\* lines 220-223: the center crop of a (rows, columns, channels) shape whose
\* rows and columns are >= resolution (the test of line 217 lets no other by)
CenterCrop(shape, resolution) ==
    LET crop_y == (shape[1] - resolution) \div 2
        crop_x == (shape[2] - resolution) \div 2
        Cut(n, from) == IF n - from < resolution THEN n - from ELSE resolution
    IN  <<Cut(shape[1], crop_y), Cut(shape[2], crop_x), shape[3]>>

\* line 234: np.transpose(arr, [2, 0, 1])
Transpose(shape) == <<shape[3], shape[1], shape[2]>>

\* Mutant of OutDict: the label is left out.
OutDictWithoutLabel(d, idx, shape) ==
    [k \in {"low_res"} |-> <<shape[1], d.low_resolution, d.low_resolution>>]

\* lines 237-246: out_dict, "y" only when the dataset has labels
OutDict(d, idx, shape) ==
    LET low == <<shape[1], d.low_resolution, d.low_resolution>>
    IN  IF d.local_classes # None
        THEN [k \in {"low_res", "y"} |->
                IF k = "y" THEN ListItem(Val(d.local_classes), idx) ELSE low]
        ELSE [k \in {"low_res"} |-> low]

Raised(kind) == Some([kind |-> kind, shape |-> <<>>, out_dict |-> <<>>])

Returned(shape, out_dict) ==
    Some([kind |-> "ok", shape |-> shape, out_dict |-> out_dict])

Self == Val(dataset)

\* line 175: path = self.local_images[idx]
GetItem(idx) ==
    /\ pc = "idle"
    /\ IF ValidIndex(Self.local_images, idx)
       THEN /\ call' = Some([idx |-> idx, path |-> ListItem(Self.local_images, idx),
                             native |-> <<0, 0>>, halved |-> <<0, 0>>,
                             window |-> None])
            /\ pc' = "open"
            /\ ret' = None
       ELSE /\ call' = Some([idx |-> idx, path |-> 0, native |-> <<0, 0>>,
                             halved |-> <<0, 0>>, window |-> None])
            /\ pc' = "raised"
            /\ ret' = Raised("IndexError")
    /\ pil_size' = <<0, 0>>
    /\ iters' = 0
    /\ UNCHANGED <<loadVars, dataset, loader, travVars>>

\* lines 177-181: the image stored at path is read; its size is width x height
Open(width, height) ==
    /\ pc = "open"
    /\ pil_size' = <<width, height>>
    /\ call' = Some([Val(call) EXCEPT !.native = <<width, height>>])
    /\ pc' = IF Self.crop THEN "crop" ELSE "resize"
    /\ UNCHANGED <<iters, ret, loadVars, dataset, loader, travVars>>

\* line 183: the image is too small to crop
CropTooSmall ==
    /\ pc = "crop"
    /\ pil_size[1] < Self.resolution \/ pil_size[2] < Self.resolution
    /\ pc' = "raised"
    /\ ret' = Raised("ValueError")
    /\ UNCHANGED <<call, pil_size, iters, loadVars, dataset, loader, travVars>>

\* The values np.random.randint(0, high) can return; it raises ValueError
\* when there is none.
Randint(high) == 0..(high - 1)

\* lines 186-187: np.random.randint has no value to draw
CropDrawFails ==
    /\ pc = "crop"
    /\ pil_size[1] >= Self.resolution /\ pil_size[2] >= Self.resolution
    /\ Randint(pil_size[1] - Self.resolution) = {}
         \/ Randint(pil_size[2] - Self.resolution) = {}
    /\ pc' = "raised"
    /\ ret' = Raised("ValueError")
    /\ UNCHANGED <<call, pil_size, iters, loadVars, dataset, loader, travVars>>

\* lines 186-190: the offsets are drawn and the window is cut out
Crop(left, bottom) ==
    /\ pc = "crop"
    /\ pil_size[1] >= Self.resolution /\ pil_size[2] >= Self.resolution
    /\ left \in Randint(pil_size[1] - Self.resolution)
    /\ bottom \in Randint(pil_size[2] - Self.resolution)
    /\ call' = Some([Val(call) EXCEPT !.window = Some(<<left, bottom>>)])
    /\ pil_size' = <<(left + Self.resolution) - left, (bottom + Self.resolution) - bottom>>
    /\ pc' = "convert"
    /\ UNCHANGED <<iters, ret, loadVars, dataset, loader, travVars>>

\* lines 196-200: one iteration of the halving loop
HalveStep ==
    /\ pc = "resize"
    /\ KeepHalving(pil_size, Self.resolution)
    /\ pil_size' = HalveSize(pil_size)
    /\ iters' = iters + 1
    /\ UNCHANGED <<pc, call, ret, loadVars, dataset, loader, travVars>>

\* lines 202-206: the loop is left and the image is scaled
Scale ==
    /\ pc = "resize"
    /\ ~KeepHalving(pil_size, Self.resolution)
    /\ call' = Some([Val(call) EXCEPT !.halved = pil_size])
    /\ pil_size' = ScaleSize(pil_size, Self.resolution)
    /\ pc' = "convert"
    /\ UNCHANGED <<iters, ret, loadVars, dataset, loader, travVars>>

\* lines 209-248: the array is made, checked, cropped, normalised and returned
Convert ==
    /\ pc = "convert"
    /\ LET shape == ArrayShape(pil_size, Self.num_channels)
           wanted == <<Self.resolution, Self.resolution, Self.num_channels>>
           arr == Transpose(CenterCrop(shape, Self.resolution))
       IN  IF Self.num_channels \notin {1, 3}
           THEN pc' = "raised" /\ ret' = Raised("ValueError")
           ELSE IF shape # wanted
           THEN pc' = "raised" /\ ret' = Raised("ValueError")
           ELSE /\ pc' = "returned"
                /\ ret' = Returned(arr, OutDict(Self, Val(call).idx, arr))
    /\ UNCHANGED <<call, pil_size, iters, loadVars, dataset, loader, travVars>>

\* The caller has the result (or the exception) and may call again.
Finish ==
    /\ pc \in {"returned", "raised"}
    /\ pc' = "idle"
    /\ call' = None /\ pil_size' = <<0, 0>> /\ iters' = 0 /\ ret' = None
    /\ UNCHANGED <<loadVars, dataset, loader, travVars>>

Dims == 1..MaxDim

\* The datasets of SpecItem: up to MaxLen paths, labelled or not.
ItemDatasets ==
    UNION {{NewDataset(res, 1, ch, [i \in 1..n |-> i], cls, crop) :
              <<res, ch, crop, cls>> \in
                  (1..MaxRes) \X {1, 2, 3} \X BOOLEAN
                  \X ({None} \cup {Some(l) : l \in [1..n -> {0, 1}]})} :
           n \in 0..MaxLen}

InitItem ==
    /\ dataset \in {Some(d) : d \in ItemDatasets}
    /\ loader = None
    /\ fs = {} /\ lpc = "loaded" /\ args = None /\ all_files = <<>>
    /\ classes = None /\ visited = <<>>
    /\ IdleItem /\ IdleTraversal

NextItem ==
    \/ \E idx \in -(MaxLen + 1)..(MaxLen + 1) : GetItem(idx)
    \/ \E width, height \in Dims : Open(width, height)
    \/ CropTooSmall
    \/ CropDrawFails
    \/ \E left, bottom \in 0..MaxDim : Crop(left, bottom)
    \/ HalveStep
    \/ Scale
    \/ Convert
    \/ Finish

SpecItem == InitItem /\ [][NextItem]_vars

(***************************************************************************)
(* Properties of __getitem__ (SpecItem).                                    *)
(***************************************************************************)
Done == pc \in {"returned", "raised"}

\* The call read the image: idx was accepted.
Opened == call # None /\ Val(call).native # <<0, 0>>

Native == Val(call).native

Channels13 == Self.num_channels \in {1, 3}

\* C1: on the resize path, with 1 or 3 channels, every image read, square or
\* not, makes the call return, and the array returned has `channels`
\* channels, `resolution` rows and `resolution` columns.
C1_ResizePathAlwaysReturns ==
    (Done /\ Opened /\ ~Self.crop /\ Channels13) =>
        /\ pc = "returned"
        /\ Val(ret).shape = <<Self.num_channels, Self.resolution, Self.resolution>>

\* C2: on the crop path the call fails exactly when the width or the height
\* is below the resolution; otherwise the offsets drawn keep the window
\* inside the image, and every offset that does so can be drawn.
C2_CropFailsExactlyWhenTooSmall ==
    /\ (Done /\ Opened /\ Self.crop /\ Channels13) =>
            (pc = "raised" <=>
                (Native[1] < Self.resolution \/ Native[2] < Self.resolution))
    /\ (Opened /\ Self.crop /\ Val(call).window # None) =>
            LET w == Val(Val(call).window)
            IN  /\ 0 <= w[1] /\ w[1] <= Native[1] - Self.resolution
                /\ 0 <= w[2] /\ w[2] <= Native[2] - Self.resolution
    /\ (pc = "crop" /\ Native[1] >= Self.resolution /\ Native[2] >= Self.resolution) =>
            \A left \in 0..(Native[1] - Self.resolution),
               bottom \in 0..(Native[2] - Self.resolution) :
                ENABLED Crop(left, bottom)

\* C8 as claimed: a sample is returned only for 0 <= idx < len(dataset), and
\* every other idx, the negative ones included, raises IndexError.
C8_OnlyIndicesFromZero ==
    /\ pc = "returned" => (0 <= Val(call).idx /\ Val(call).idx < DatasetLen(Self))
    /\ (call # None /\ (Val(call).idx < 0 \/ Val(call).idx >= DatasetLen(Self))) =>
            (pc = "raised" /\ Val(ret).kind = "IndexError")

\* C8 as amended: a sample is returned only for -len <= idx < len, an idx
\* below zero reading the path (and label) at len + idx; the call raises
\* IndexError, reading no image, exactly for the idx outside that range.
C8_IndexWithinListRange ==
    LET n == DatasetLen(Self)
    IN  call # None =>
            LET idx == Val(call).idx
                inside == -n <= idx /\ idx < n
            IN  /\ pc = "returned" => inside
                /\ ~inside => (pc = "raised" /\ Val(ret).kind = "IndexError" /\ ~Opened)
                /\ (ret # None /\ Val(ret).kind = "IndexError") => ~inside
                /\ inside => Val(call).path =
                        Self.local_images[IF idx < 0 THEN n + idx + 1 ELSE idx + 1]

\* C8's case: a negative idx for which a sample was returned.
C8_Witness ==
    /\ pc = "returned"
    /\ Val(call).idx < 0
    /\ Val(call).idx = -DatasetLen(Self)

\* C9: the side-dict of a returned sample has "low_res"; it has "y" iff the
\* dataset was constructed with labels, and then "y" is the label at the
\* position of the path that was read.
C9_SideDictKeys ==
    pc = "returned" =>
        LET out == Val(ret).out_dict
        IN  /\ "low_res" \in DOMAIN out
            /\ "y" \in DOMAIN out <=> Self.local_classes # None
            /\ DOMAIN out \subseteq {"low_res", "y"}
            /\ "y" \in DOMAIN out =>
                   \E k \in 1..DatasetLen(Self) :
                       /\ Self.local_images[k] = Val(call).path
                       /\ out["y"] = Val(Self.local_classes)[k]

\* C9's case: a labelled dataset, the second item returned with its label 1
\* while the first item's label is 0.
C9_Witness ==
    /\ pc = "returned"
    /\ Self.local_classes # None
    /\ Val(call).idx = 1
    /\ Val(Self.local_classes)[1] = 0
    /\ Val(ret).out_dict["y"] = 1

RECURSIVE TwoPow(_)
TwoPow(n) == IF n = 0 THEN 1 ELSE 2 * TwoPow(n - 1)

\* C10: the halving loop ends, each iteration at least halving the smaller
\* side, which stays >= 1 (so after k iterations 2^k <= the native smaller
\* side); when the native smaller side is >= resolution, the smaller side d
\* at loop exit has resolution <= d < 2 * resolution; and after the scale
\* step the smaller side is exactly resolution and the larger >= resolution.
C10_HalvingAndScale ==
    /\ pc = "resize" =>
            /\ Min2(pil_size) >= 1
            /\ TwoPow(iters) * Min2(pil_size) <= Min2(Native)
            /\ Min2(Native) >= Self.resolution => Min2(pil_size) >= Self.resolution
    /\ (pc = "convert" /\ ~Self.crop) =>
            LET d == Min2(Val(call).halved)
            IN  /\ TwoPow(iters) * d <= Min2(Native)
                /\ d < 2 * Self.resolution
                /\ Min2(Native) >= Self.resolution => Self.resolution <= d
                /\ Min2(Native) < Self.resolution => (iters = 0 /\ d = Min2(Native))
                /\ Min2(pil_size) = Self.resolution
                /\ Max2(pil_size) >= Self.resolution

\* C10's case: a non-square image that was halved and is still non-square
\* after the scale step.
C10_Witness ==
    /\ pc = "convert" /\ ~Self.crop
    /\ iters >= 1
    /\ Max2(pil_size) > Min2(pil_size)

(***************************************************************************)
(* The DataLoader load_data_superres returns (lines 104-120), traversed:    *)
(* SequentialSampler or RandomSampler by shuffle, BatchSampler by           *)
(* batch_size and drop_last, every index of a batch fetched with            *)
(* dataset[idx] and the samples collated in index order.                    *)
(***************************************************************************)
\* lines 196-200 run to the end: the size the loop leaves
RECURSIVE HalveAll(_, _)
HalveAll(size, resolution) ==
    IF KeepHalving(size, resolution)
    THEN HalveAll(HalveSize(size), resolution)
    ELSE size

\* What dataset[idx] can do when the image at the path has the given size:
\* the set of [kind, idx, window, out_dict], one per draw of the random
\* offsets (lines 175-248 as one step).
FetchOutcomes(d, size, idx) ==
    LET failed == {[kind |-> "ValueError", idx |-> idx, window |-> None,
                    out_dict |-> <<>>]}
        Sample(window, pil) ==
            LET shape == ArrayShape(pil, d.num_channels)
                arr == Transpose(CenterCrop(shape, d.resolution))
            IN  IF d.num_channels \notin {1, 3}
                     \/ shape # <<d.resolution, d.resolution, d.num_channels>>
                THEN failed
                ELSE {[kind |-> "ok", idx |-> idx, window |-> window,
                       out_dict |-> OutDict(d, idx, arr)]}
    IN  IF d.crop
        THEN IF size[1] < d.resolution \/ size[2] < d.resolution
             THEN failed
             ELSE IF Randint(size[1] - d.resolution) = {}
                       \/ Randint(size[2] - d.resolution) = {}
             THEN failed
             ELSE UNION {Sample(Some(<<left, bottom>>), <<d.resolution, d.resolution>>) :
                            <<left, bottom>> \in Randint(size[1] - d.resolution)
                                                 \X Randint(size[2] - d.resolution)}
        ELSE Sample(None, ScaleSize(HalveAll(size, d.resolution), d.resolution))

\* range(n) as a sequence
RangeSeq(n) == [i \in 1..n |-> i - 1]

\* The orders a sampler can give over a dataset of n items: RandomSampler any
\* permutation, SequentialSampler range(n).
SamplerOrders(shuffle, n) ==
    IF shuffle
    THEN {[i \in 1..n |-> f[i] - 1] : f \in Permutations(1..n)}
    ELSE {RangeSeq(n)}

\* Mutant of NextBatchSize: drop_last is ignored, a short last batch is kept.
NextBatchSizeKeepsTail(remaining, batch_size, drop_last) ==
    IF remaining >= batch_size THEN batch_size ELSE remaining

\* BatchSampler: the size of the next batch with `remaining` indices left,
\* 0 when the traversal is over.
NextBatchSize(remaining, batch_size, drop_last) ==
    IF remaining >= batch_size THEN batch_size
    ELSE IF drop_last THEN 0
    ELSE remaining

TheLoader == Val(loader)

\* The traversals followed: two, so that one can be compared with the other;
\* one when both the order and the crop windows are drawn at random.
TraversalCap == IF TheLoader.shuffle /\ Self.crop THEN 1 ELSE 2

\* iter(loader): the sampler fixes the order of this traversal
StartTraversal(o) ==
    /\ tpc \in {"idle", "finished", "raised"}
    /\ Len(history) < TraversalCap
    /\ o \in SamplerOrders(TheLoader.shuffle, DatasetLen(Self))
    /\ order' = o
    /\ pos' = 0
    /\ batches' = <<>>
    /\ tpc' = "running"
    /\ UNCHANGED <<images, history, loadVars, dataset, loader, itemVars>>

\* The sets of samples the next k indices can give, as sequences.
BatchOutcomes(k) ==
    LET Choices(j) ==
            FetchOutcomes(Self, images[order[pos + j] + 1], order[pos + j])
    IN  {b \in [1..k -> UNION {Choices(j) : j \in 1..k}] :
            \A j \in 1..k : b[j] \in Choices(j)}

\* next(iterator): the next batch is fetched and collated, or a fetch raises
NextBatch(b) ==
    /\ tpc = "running"
    /\ LET k == NextBatchSize(Len(order) - pos, TheLoader.batch_size,
                               TheLoader.drop_last)
       IN  /\ k > 0
           /\ b \in BatchOutcomes(k)
           /\ IF \A j \in 1..k : b[j].kind = "ok"
              THEN /\ batches' = Append(batches, b)
                   /\ pos' = pos + k
                   /\ UNCHANGED <<tpc, order, history>>
              ELSE /\ tpc' = "raised"
                   /\ history' = Append(history, [batches |-> batches,
                                                  ended |-> "raised"])
                   /\ batches' = <<>> /\ order' = <<>> /\ pos' = 0
    /\ UNCHANGED <<images, loadVars, dataset, loader, itemVars>>

\* next(iterator) raises StopIteration: the traversal is over
EndTraversal ==
    /\ tpc = "running"
    /\ NextBatchSize(Len(order) - pos, TheLoader.batch_size,
                     TheLoader.drop_last) = 0
    /\ tpc' = "finished"
    /\ history' = Append(history, [batches |-> batches, ended |-> "finished"])
    /\ batches' = <<>> /\ order' = <<>> /\ pos' = 0
    /\ UNCHANGED <<images, loadVars, dataset, loader, itemVars>>

\* The images of SpecLoader, all read at resolution 1: 3 x 2 is halved to
\* 1 x 1 on the resize path and has two windows on the crop path; 2 x 1
\* makes __getitem__ raise on either path.
ImagePool == {<<3, 2>>, <<2, 1>>}

InitLoader ==
    /\ \E n \in 0..MaxItems, crop \in BOOLEAN :
            dataset = Some(NewDataset(1, 1, 1, [i \in 1..n |-> i], None, crop))
    /\ images \in [1..DatasetLen(Self) -> ImagePool]
    /\ \E batch_size \in 1..MaxBatch, deterministic, droplast \in BOOLEAN :
            /\ loader = Some(NewLoader(batch_size, deterministic, droplast))
            /\ args = Some([data_dir |-> "data", class_cond |-> FALSE,
                            num_class |-> None, deterministic |-> deterministic])
    /\ fs = {} /\ lpc = "loaded" /\ all_files = <<>>
    /\ classes = None /\ visited = <<>>
    /\ IdleItem
    /\ tpc = "idle" /\ order = <<>> /\ pos = 0 /\ batches = <<>> /\ history = <<>>

NextLoader ==
    \/ \E o \in SamplerOrders(TheLoader.shuffle, DatasetLen(Self)) : StartTraversal(o)
    \/ \E b \in BatchOutcomes(NextBatchSize(Len(order) - pos, TheLoader.batch_size,
                                            TheLoader.drop_last)) : NextBatch(b)
    \/ EndTraversal

SpecLoader == InitLoader /\ [][NextLoader]_vars

(***************************************************************************)
(* Properties of the traversal (SpecLoader).                                *)
(***************************************************************************)
\* The indices of a sequence of batches, in the order fetched.
RECURSIVE Visited(_)
Visited(bs) ==
    IF bs = <<>> THEN <<>>
    ELSE Visited(SubSeq(bs, 1, Len(bs) - 1))
            \o [j \in 1..Len(bs[Len(bs)]) |-> bs[Len(bs)][j].idx]

\* The indices of each batch, batch by batch.
BatchIndices(bs) == [i \in 1..Len(bs) |-> [j \in 1..Len(bs[i]) |-> bs[i][j].idx]]

\* The items a finished traversal leaves out: the short tail, when dropped.
Dropped == IF TheLoader.drop_last
           THEN DatasetLen(Self) % TheLoader.batch_size
           ELSE 0

Finished(t) == t.ended = "finished"

\* C5: a traversal in which every fetch succeeded yields floor(n/b) batches
\* of b items when drop_last is set, and ceil(n/b) batches otherwise, each
\* of b items but for a last batch of n mod b items when b does not divide n.
C5_BatchCounts ==
    \A t \in Range(history) : Finished(t) =>
        LET n == DatasetLen(Self)
            b == TheLoader.batch_size
            bs == t.batches
        IN  IF TheLoader.drop_last
            THEN /\ Len(bs) = n \div b
                 /\ \A i \in 1..Len(bs) : Len(bs[i]) = b
                 /\ Len(Visited(bs)) = n - (n % b)
            ELSE /\ Len(bs) = (n + b - 1) \div b
                 /\ \A i \in 1..(Len(bs) - 1) : Len(bs[i]) = b
                 /\ Len(bs) > 0 =>
                        Len(bs[Len(bs)]) = (IF n % b = 0 THEN b ELSE n % b)
                 /\ Len(Visited(bs)) = n

\* C5's case: three items in batches of two, the tail kept as a batch of one.
C5_Witness ==
    /\ DatasetLen(Self) = 3 /\ TheLoader.batch_size = 2 /\ ~TheLoader.drop_last
    /\ history # <<>> /\ Finished(history[1])
    /\ Len(history[1].batches) = 2
    /\ Len(history[1].batches[2]) = 1

Deterministic == Val(args).deterministic

\* The traversals so far: the completed ones and the one under way.
Traversals ==
    Range(history) \cup
        (IF tpc = "running" THEN {[batches |-> batches, ended |-> "running"]} ELSE {})

\* What C6 says of one traversal whatever the mode: no index twice, and in
\* deterministic mode the indices 0, 1, 2, ... in increasing order; a
\* finished traversal leaves out only the dropped tail.
VisitsInOrder(t) ==
    LET v == Visited(t.batches)
    IN  /\ NoDuplicates(v)
        /\ Range(v) \subseteq 0..(DatasetLen(Self) - 1)
        /\ Deterministic => v = RangeSeq(Len(v))
        /\ Finished(t) => Len(v) = DatasetLen(Self) - Dropped

\* C6 as claimed: in deterministic mode the indices are visited in increasing
\* order and two traversals yield identical batches in identical order,
\* crop enabled or not; in shuffled mode a traversal visits every index once,
\* the dropped tail apart.
C6_DeterministicTraversalsIdentical ==
    /\ \A t \in Traversals : VisitsInOrder(t)
    /\ (Deterministic /\ Len(history) = 2) => history[1] = history[2]

\* C6 as amended: as claimed, but two deterministic traversals yield the same
\* indices in the same batches and end the same way; the batch contents are
\* identical when crop is disabled, and with crop enabled each sample is the
\* window drawn for that access.
C6_DeterministicTraversalsSameIndices ==
    /\ \A t \in Traversals : VisitsInOrder(t)
    /\ (Deterministic /\ Len(history) = 2) =>
            /\ history[1].ended = history[2].ended
            /\ BatchIndices(history[1].batches) = BatchIndices(history[2].batches)
            /\ ~Self.crop => history[1] = history[2]
    /\ \A t \in Traversals : \A i \in 1..Len(t.batches) :
            \A j \in 1..Len(t.batches[i]) :
                t.batches[i][j].window # None <=> Self.crop

\* C6's case: deterministic mode with crop, two finished traversals of the
\* same indices whose batches differ.
C6_Witness ==
    /\ Deterministic /\ Self.crop
    /\ Len(history) = 2
    /\ Finished(history[1]) /\ Finished(history[2])
    /\ Len(history[1].batches) >= 2
    /\ history[1] # history[2]

====
